---- MODULE Spec2Model ----
(***************************************************************************)
(* CitizenAI (src/app.py): model start-up with fallback, the generation    *)
(* engine, the keyword sentiment classifier and the Flask request          *)
(* handlers around them.                                                   *)
(*                                                                         *)
(* A text is a sequence of one-character strings, so that lower-casing,    *)
(* substring containment, split and strip are computed position by         *)
(* position as Python computes them.                                       *)
(***************************************************************************)
EXTENDS Integers, Sequences, FiniteSets, Bags

VARIABLES
    pc,              \* "boot" before the module body has run, then "serving"
    device,          \* global device: "None", "cuda", "cpu"
    tokenizer,       \* global tokenizer: "None", "primary", "fallback"
    model,           \* global model: "None", "primary", "fallback"
    boot,            \* what start-up did (observation of the one start-up run)
    session,         \* per client: 'logged_in' in session
    chat_history,    \* list of chat entries
    sentiment_data,  \* the three counters
    concerns,        \* list of concern entries
    threads,         \* bag of the requests between their login gate and store
    accepted,        \* observation: accepted feedback submissions per category
    last,            \* observation: the request handled by the last step
    call             \* observation: the last direct call of a core function

vars == << pc, device, tokenizer, model, boot, session, chat_history,
           sentiment_data, concerns, threads, accepted, last, call >>

globals == << device, tokenizer, model >>
stores == << chat_history, sentiment_data, concerns >>

(***************************************************************************)
(* Bounds of the model.                                                    *)
(***************************************************************************)
\* accepted submissions (chat entries + concerns + feedback) in one run
MaxSubmissions == 2
\* fragments concatenated into a text given to a core function
MaxFragments == 3

(***************************************************************************)
(* Python str operations on texts.                                         *)
(***************************************************************************)
UpperLetters ==
    << "A", "B", "C", "D", "E", "F", "G", "H", "I", "J", "K", "L", "M",
       "N", "O", "P", "Q", "R", "S", "T", "U", "V", "W", "X", "Y", "Z" >>

LowerLetters ==
    << "a", "b", "c", "d", "e", "f", "g", "h", "i", "j", "k", "l", "m",
       "n", "o", "p", "q", "r", "s", "t", "u", "v", "w", "x", "y", "z" >>

\* The characters str.strip() removes, which are those str.isspace() holds
\* of.  Among the ASCII characters: space, \t, \n, \r, \f, the vertical tab
\* U+000B and the separators U+001C to U+001F (the last five are written
\* raw in the strings below).  A TLA+ string holds ASCII only, so the texts of
\* the model are ASCII texts, and the whitespace beyond ASCII (U+0085,
\* U+00A0, U+1680, U+2000 to U+200A, U+2028, U+2029, U+202F, U+205F, U+3000)
\* occurs in none of them.
VerticalTab == ""
FileSeparator == ""
GroupSeparator == ""
RecordSeparator == ""
UnitSeparator == ""

Whitespace ==
    { " ", "\t", "\n", "\r", "\f", VerticalTab,
      FileSeparator, GroupSeparator, RecordSeparator, UnitSeparator }

LowerChar(c) ==
    IF \E i \in DOMAIN UpperLetters : UpperLetters[i] = c
    THEN LowerLetters[CHOOSE i \in DOMAIN UpperLetters : UpperLetters[i] = c]
    ELSE c

\* str.lower()
lower(s) == [i \in 1..Len(s) |-> LowerChar(s[i])]

\* sub occurs in s at position i
MatchAt(s, sub, i) ==
    /\ i >= 1
    /\ i + Len(sub) - 1 <= Len(s)
    /\ \A k \in 1..Len(sub) : s[i + k - 1] = sub[k]

\* the Python expression `sub in s`
contains(sub, s) == \E i \in 1..(Len(s) - Len(sub) + 1) : MatchAt(s, sub, i)

SetMin(S) == CHOOSE x \in S : \A y \in S : x <= y
SetMax(S) == CHOOSE x \in S : \A y \in S : x >= y

\* str.find(sub): the lowest position of sub in s, 0 when there is none
find(s, sub) ==
    LET at == {i \in 1..(Len(s) - Len(sub) + 1) : MatchAt(s, sub, i)}
    IN  IF at = {} THEN 0 ELSE SetMin(at)

\* str.split(sep): cut at the occurrences found scanning from the left
RECURSIVE split(_, _)
split(s, sep) ==
    LET i == find(s, sep)
    IN  IF i = 0
        THEN << s >>
        ELSE << SubSeq(s, 1, i - 1) >> \o split(SubSeq(s, i + Len(sep), Len(s)), sep)

\* str.strip()
strip(s) ==
    LET keep == {i \in 1..Len(s) : s[i] \notin Whitespace}
    IN  IF keep = {} THEN << >> ELSE SubSeq(s, SetMin(keep), SetMax(keep))

\* the texts made of at most n fragments of F
RECURSIVE TextsUpTo(_, _)
TextsUpTo(F, n) ==
    IF n = 0 THEN { << >> }
    ELSE LET shorter == TextsUpTo(F, n - 1)
         IN  shorter \cup { f \o t : f \in F, t \in shorter }

(***************************************************************************)
(* Module-level constants of app.py.                                       *)
(***************************************************************************)
\* The two fixed replies are kept whole, as one symbol each: no operation
\* looks inside them.  (Line 107 spells its apostrophe U+2019.)
NotReady ==
    << "I'm currently setting up my AI capabilities. Please try again in a moment." >>

TechnicalDifficulties ==
    << "I'm having technical difficulties right now. Please try again later." >>

AnswerMarker == << "A", "n", "s", "w", "e", "r", ":" >>

positive_words ==
    << <<"g", "o", "o", "d">>,
       <<"g", "r", "e", "a", "t">>,
       <<"e", "x", "c", "e", "l", "l", "e", "n", "t">>,
       <<"a", "m", "a", "z", "i", "n", "g">>,
       <<"w", "o", "n", "d", "e", "r", "f", "u", "l">>,
       <<"f", "a", "n", "t", "a", "s", "t", "i", "c">>,
       <<"p", "e", "r", "f", "e", "c", "t">>,
       <<"o", "u", "t", "s", "t", "a", "n", "d", "i", "n", "g">>,
       <<"b", "r", "i", "l", "l", "i", "a", "n", "t">>,
       <<"s", "u", "p", "e", "r", "b">>,
       <<"s", "a", "t", "i", "s", "f", "i", "e", "d">>,
       <<"h", "a", "p", "p", "y">>,
       <<"p", "l", "e", "a", "s", "e", "d">>,
       <<"i", "m", "p", "r", "e", "s", "s", "e", "d">>,
       <<"h", "e", "l", "p", "f", "u", "l">>,
       <<"e", "f", "f", "i", "c", "i", "e", "n", "t">> >>

negative_words ==
    << <<"b", "a", "d">>,
       <<"t", "e", "r", "r", "i", "b", "l", "e">>,
       <<"a", "w", "f", "u", "l">>,
       <<"h", "o", "r", "r", "i", "b", "l", "e">>,
       <<"d", "i", "s", "a", "p", "p", "o", "i", "n", "t", "i", "n", "g">>,
       <<"f", "r", "u", "s", "t", "r", "a", "t", "e", "d">>,
       <<"a", "n", "g", "r", "y">>,
       <<"u", "p", "s", "e", "t">>,
       <<"p", "o", "o", "r">>,
       <<"i", "n", "a", "d", "e", "q", "u", "a", "t", "e">>,
       <<"u", "s", "e", "l", "e", "s", "s">>,
       <<"s", "l", "o", "w">>,
       <<"d", "e", "l", "a", "y", "e", "d">>,
       <<"p", "r", "o", "b", "l", "e", "m">>,
       <<"i", "s", "s", "u", "e">>,
       <<"c", "o", "m", "p", "l", "a", "i", "n", "t">> >>

AdminName == << "a", "d", "m", "i", "n" >>
AdminPassword == << "p", "a", "s", "s", "w", "o", "r", "d" >>

(***************************************************************************)
(* initialize_model (app.py 22-69).  The outcome of each library call is   *)
(* an input: q is what torch.cuda.is_available() does ("true", "false",    *)
(* "raise"), fails is the set of acquisition steps that raise.             *)
(***************************************************************************)
Queries == {"true", "false", "raise"}

Steps == {"ptok", "pquant", "pmodel", "pto", "ftok", "fmodel", "fto"}

Outcome(tok, mdl, dev, ret, pa, pe, fa, fe) ==
    [ tokenizer |-> tok, model |-> mdl, device |-> dev, ret |-> ret,
      primary_attempts |-> pa, primary_error |-> pe,
      fallback_attempts |-> fa, fallback_error |-> fe ]

\* faulty variant: the fallback attempt without its own try/except, so a
\* failing fallback step leaves initialize_model as an exception
fallback_model_uncaught(tok, mdl, dev, pe, fails) ==
    IF "ftok" \in fails
    THEN Outcome(tok, mdl, dev, "raised", 1, pe, 1, "ftok")
    ELSE IF "fmodel" \in fails
    THEN Outcome("fallback", mdl, dev, "raised", 1, pe, 1, "fmodel")
    ELSE IF "fto" \in fails
    THEN Outcome("fallback", "fallback", dev, "raised", 1, pe, 1, "fto")
    ELSE Outcome("fallback", "fallback", dev, "True", 1, pe, 1, "none")

\* the handler `except Exception as e:` of lines 55-69, entered with the
\* globals as the failed primary attempt left them; pe is the step that raised
fallback_model(tok, mdl, dev, pe, fails) ==
    IF "ftok" \in fails
    THEN Outcome(tok, mdl, dev, "False", 1, pe, 1, "ftok")
    ELSE IF "fmodel" \in fails
    THEN Outcome("fallback", mdl, dev, "False", 1, pe, 1, "fmodel")
    ELSE IF "fto" \in fails
    THEN Outcome("fallback", "fallback", dev, "False", 1, pe, 1, "fto")
    ELSE Outcome("fallback", "fallback", dev, "True", 1, pe, 1, "none")

initialize_model(tok, mdl, dev, q, fails) ==
    IF q = "raise"
    THEN \* line 27 is outside the try: the exception leaves the function
         Outcome(tok, mdl, dev, "raised", 0, "none", 0, "none")
    ELSE LET d == IF q = "true" THEN "cuda" ELSE "cpu"
         IN  IF "ptok" \in fails
             THEN fallback_model(tok, mdl, d, "ptok", fails)
             ELSE IF d = "cuda"
             THEN IF "pquant" \in fails
                  THEN fallback_model("primary", mdl, d, "pquant", fails)
                  ELSE IF "pmodel" \in fails
                  THEN fallback_model("primary", mdl, d, "pmodel", fails)
                  ELSE Outcome("primary", "primary", d, "True", 1, "none", 0, "none")
             ELSE IF "pmodel" \in fails
                  THEN fallback_model("primary", mdl, d, "pmodel", fails)
                  ELSE IF "pto" \in fails
                  THEN fallback_model("primary", "primary", d, "pto", fails)
                  ELSE Outcome("primary", "primary", d, "True", 1, "none", 0, "none")

(***************************************************************************)
(* generate_response (app.py 71-107).  failAt is the internal step that    *)
(* raises ("none": no step does), decoded is what tokenizer.decode         *)
(* returns.                                                                *)
(***************************************************************************)
FailPoints == {"prompt", "tokenize", "to_device", "generate", "decode", "extract"}

Reply(ret, raised, invoked) ==
    [ ret |-> ret, raised |-> raised, invoked |-> invoked ]

\* faulty variant: the text after the first marker, split(...)[1] in Python
extract_answer_first(response) ==
    IF contains(AnswerMarker, response)
    THEN LET parts == split(response, AnswerMarker)
         IN  strip(parts[2])
    ELSE response

\* lines 100-103
extract_answer(response) ==
    IF contains(AnswerMarker, response)
    THEN LET parts == split(response, AnswerMarker)
         IN  strip(parts[Len(parts)])
    ELSE response

\* faulty variant: `and` for `or` in the test of line 75
generate_response_and(question, tok, mdl, failAt, decoded) ==
    IF mdl = "None" /\ tok = "None"
    THEN Reply(NotReady, FALSE, FALSE)
    ELSE IF failAt \in FailPoints
    THEN Reply(TechnicalDifficulties, FALSE, failAt # "prompt")
    ELSE Reply(extract_answer(decoded), FALSE, TRUE)

\* faulty variant: the try of line 78 opened only before generation, so a
\* failure while building, tokenizing or moving the prompt is not caught
generate_response_late_try(question, tok, mdl, failAt, decoded) ==
    IF mdl = "None" \/ tok = "None"
    THEN Reply(NotReady, FALSE, FALSE)
    ELSE IF failAt \in {"prompt", "tokenize", "to_device"}
    THEN Reply(<< >>, TRUE, failAt # "prompt")
    ELSE IF failAt \in FailPoints
    THEN Reply(TechnicalDifficulties, FALSE, TRUE)
    ELSE Reply(extract_answer(decoded), FALSE, TRUE)

generate_response(question, tok, mdl, failAt, decoded) ==
    IF mdl = "None" \/ tok = "None"
    THEN Reply(NotReady, FALSE, FALSE)
    ELSE IF failAt \in FailPoints
    THEN Reply(TechnicalDifficulties, FALSE, failAt # "prompt")
    ELSE Reply(extract_answer(decoded), FALSE, TRUE)

(***************************************************************************)
(* analyze_sentiment (app.py 109-128).                                     *)
(***************************************************************************)
\* sum(1 for word in words if word in text)
RECURSIVE score(_, _)
score(words, text) ==
    IF words = << >> THEN 0
    ELSE (IF contains(Head(words), text) THEN 1 ELSE 0) + score(Tail(words), text)

\* faulty variant: the text is not lower-cased
analyze_sentiment_case_sensitive(text) ==
    LET positive_score == score(positive_words, text)
        negative_score == score(negative_words, text)
    IN  IF positive_score > negative_score THEN "Positive"
        ELSE IF negative_score > positive_score THEN "Negative"
        ELSE "Neutral"

analyze_sentiment(text) ==
    LET text_lower == lower(text)
        positive_score == score(positive_words, text_lower)
        negative_score == score(negative_words, text_lower)
    IN  IF positive_score > negative_score THEN "Positive"
        ELSE IF negative_score > positive_score THEN "Negative"
        ELSE "Neutral"

(***************************************************************************)
(* State after the module-level assignments of app.py 11-20.               *)
(***************************************************************************)
Clients == {"c1", "c2"}

Categories == {"positive", "neutral", "negative"}

NoBoot ==
    [ how |-> "none", query |-> "none", ret |-> "none",
      primary_attempts |-> 0, primary_error |-> "none",
      fallback_attempts |-> 0, fallback_error |-> "none" ]

Req(handler, client, status, username, password) ==
    [ handler |-> handler, client |-> client, status |-> status,
      username |-> username, password |-> password ]

NoRequest == Req("none", "none", "none", << >>, << >>)

\* a request between its login gate and its store, held by a thread of the
\* server (app.run serves each request in a thread): state is the handler it
\* runs ("ask", "feedback", "concern"), logged_in whether 'logged_in' is in
\* the session the request came with, text the stripped form text, key and
\* val the counter read at line 182
Work(state, logged_in, key, val, text) ==
    [ state |-> state, logged_in |-> logged_in, key |-> key, val |-> val,
      text |-> text ]

\* the bag with one more / one less copy of w
Admitted(w) == threads (+) SetToBag({w})
Finished(w) == threads (-) SetToBag({w})

NoCall == [ fn |-> "none" ]

Init ==
    /\ pc = "boot"
    /\ device = "None"
    /\ tokenizer = "None"
    /\ model = "None"
    /\ boot = NoBoot
    /\ session = [c \in Clients |-> FALSE]
    /\ chat_history = << >>
    /\ sentiment_data = [k \in Categories |-> 0]
    /\ concerns = << >>
    /\ threads = EmptyBag
    /\ accepted = [k \in Categories |-> 0]
    /\ last = NoRequest
    /\ call = NoCall

(***************************************************************************)
(* Start-up.                                                               *)
(***************************************************************************)
\* the `if __name__ == '__main__':` block, lines 239-251: initialize_model()
\* inside try/except, then app.run(); FailSets are the sets of failing
\* acquisition steps the run may meet
Main(FailSets) ==
    /\ pc = "boot"
    /\ \E q \in Queries, fails \in FailSets :
          LET r == initialize_model(tokenizer, model, device, q, fails)
          IN  /\ tokenizer' = r.tokenizer
              /\ model' = r.model
              /\ device' = r.device
              /\ boot' = [ how |-> "main", query |-> q, ret |-> r.ret,
                           primary_attempts |-> r.primary_attempts,
                           primary_error |-> r.primary_error,
                           fallback_attempts |-> r.fallback_attempts,
                           fallback_error |-> r.fallback_error ]
    /\ pc' = "serving"
    /\ UNCHANGED << session, stores, threads, accepted, last, call >>

\* app.py imported by a WSGI server (`flask run`, gunicorn): the guard of
\* line 239 is false and initialize_model() is never called
Imported ==
    /\ pc = "boot"
    /\ pc' = "serving"
    /\ boot' = [NoBoot EXCEPT !.how = "import"]
    /\ UNCHANGED << globals, session, stores, threads, accepted, last, call >>

(***************************************************************************)
(* Request handlers on the threaded server.  A form value is the raw text  *)
(* of the field ("" when the field is missing).  Entries carry no          *)
(* timestamp: datetime.now() is read by nothing in app.py.                 *)
(*                                                                         *)
(* login, logout and dashboard touch no shared store and are one step.     *)
(* The three storing handlers are two steps each, because other requests   *)
(* run between the login gate and the store: /ask waits in                 *)
(* generate_response between them, and `sentiment_data[key] += 1` reads    *)
(* the counter and stores the sum in separate bytecodes.                   *)
(***************************************************************************)
InFlight(states) ==
    BagCardinality([ w \in { x \in BagToSet(threads) : x.state \in states }
                        |-> threads[w] ])

\* submissions accepted so far, stored or still in a thread
Submissions ==
    Len(chat_history) + Len(concerns) + InFlight({"ask", "concern"})
        + accepted["positive"] + accepted["neutral"] + accepted["negative"]

\* sentiment.lower() of line 180
SentimentKey(sentiment) ==
    CASE sentiment = "Positive" -> "positive"
      [] sentiment = "Negative" -> "negative"
      [] sentiment = "Neutral" -> "neutral"

\* lines 215-229
login(c, method, username_form, password_form) ==
    /\ pc = "serving"
    /\ IF method = "POST"
       THEN LET username == strip(username_form)
                password == strip(password_form)
            IN  IF username = AdminName /\ password = AdminPassword
                THEN /\ session' = [session EXCEPT ![c] = TRUE]
                     /\ last' = Req("login", c, "redirect_chat",
                                    username_form, password_form)
                ELSE /\ session' = session
                     /\ last' = Req("login", c, "invalid",
                                    username_form, password_form)
       ELSE /\ session' = session
            /\ last' = Req("login", c, "form", << >>, << >>)
    /\ UNCHANGED << pc, globals, boot, stores, threads, accepted, call >>

\* lines 231-235
logout(c) ==
    /\ pc = "serving"
    /\ session' = [session EXCEPT ![c] = FALSE]
    /\ last' = Req("logout", c, "redirect_index", << >>, << >>)
    /\ UNCHANGED << pc, globals, boot, stores, threads, accepted, call >>

\* lines 150-159: the gate, the form, and the call of generate_response
ask_question(c, form) ==
    /\ pc = "serving"
    /\ IF ~session[c]
       THEN /\ last' = Req("ask", c, "redirect_login", << >>, << >>)
            /\ UNCHANGED threads
       ELSE LET question == strip(form)
            IN  IF question = << >>
                THEN /\ last' = Req("ask", c, "error", << >>, << >>)
                     /\ UNCHANGED threads
                ELSE /\ Submissions < MaxSubmissions
                     /\ threads' = Admitted(Work("ask", session[c], "none", 0,
                                                question))
                     /\ last' = Req("ask", c, "generating", << >>, << >>)
    /\ UNCHANGED << pc, globals, boot, session, stores, accepted, call >>

\* lines 159-168: generate_response returns and the entry is appended
ask_question_return(w, failAt, decoded) ==
    /\ pc = "serving"
    /\ BagIn(w, threads)
    /\ w.state = "ask"
    /\ LET r == generate_response(w.text, tokenizer, model, failAt, decoded)
       IN  IF r.raised
           THEN /\ last' = Req("ask_return", "thread", "exception",
                               << >>, << >>)
                /\ UNCHANGED chat_history
           ELSE /\ chat_history' =
                       Append(chat_history,
                              [ question |-> w.text, response |-> r.ret ])
                /\ last' = Req("ask_return", "thread", "ok", << >>, << >>)
    /\ threads' = Finished(w)
    /\ UNCHANGED << pc, globals, boot, session, sentiment_data, concerns,
                    accepted, call >>

\* lines 170-182, up to and including the read of sentiment_data[key]
submit_feedback(c, form) ==
    /\ pc = "serving"
    /\ IF ~session[c]
       THEN /\ last' = Req("feedback", c, "redirect_login", << >>, << >>)
            /\ UNCHANGED << threads, accepted >>
       ELSE LET feedback_text == strip(form)
            IN  IF feedback_text = << >>
                THEN /\ last' = Req("feedback", c, "error", << >>, << >>)
                     /\ UNCHANGED << threads, accepted >>
                ELSE LET sentiment_key ==
                             SentimentKey(analyze_sentiment(feedback_text))
                     IN  /\ Submissions < MaxSubmissions
                         /\ accepted' = [accepted EXCEPT ![sentiment_key] = @ + 1]
                         /\ IF sentiment_key \in DOMAIN sentiment_data
                            THEN /\ threads' =
                                        Admitted(Work("feedback", session[c],
                                                     sentiment_key,
                                                     sentiment_data[sentiment_key],
                                                     << >>))
                                 /\ last' = Req("feedback", c, "counting",
                                                << >>, << >>)
                            ELSE /\ last' = Req("feedback", c, "ok", << >>, << >>)
                                 /\ UNCHANGED threads
    /\ UNCHANGED << pc, globals, boot, session, stores, call >>

\* the store of line 182 and the return of line 184
submit_feedback_store(w) ==
    /\ pc = "serving"
    /\ BagIn(w, threads)
    /\ w.state = "feedback"
    /\ sentiment_data' = [sentiment_data EXCEPT ![w.key] = w.val + 1]
    /\ threads' = Finished(w)
    /\ last' = Req("feedback_store", "thread", "ok", << >>, << >>)
    /\ UNCHANGED << pc, globals, boot, session, chat_history, concerns,
                    accepted, call >>

\* faulty variant: the handler without the login gate of lines 188-189
submit_concern_ungated(c, form) ==
    /\ pc = "serving"
    /\ LET concern_text == strip(form)
       IN  IF concern_text = << >>
           THEN /\ last' = Req("concern", c, "error", << >>, << >>)
                /\ UNCHANGED threads
           ELSE /\ Submissions < MaxSubmissions
                /\ threads' = Admitted(Work("concern", session[c], "none", 0,
                                           concern_text))
                /\ last' = Req("concern", c, "storing", << >>, << >>)
    /\ UNCHANGED << pc, globals, boot, session, stores, accepted, call >>

\* lines 186-193: the gate and the form
submit_concern(c, form) ==
    /\ pc = "serving"
    /\ IF ~session[c]
       THEN /\ last' = Req("concern", c, "redirect_login", << >>, << >>)
            /\ UNCHANGED threads
       ELSE LET concern_text == strip(form)
            IN  IF concern_text = << >>
                THEN /\ last' = Req("concern", c, "error", << >>, << >>)
                     /\ UNCHANGED threads
                ELSE /\ Submissions < MaxSubmissions
                     /\ threads' = Admitted(Work("concern", session[c], "none",
                                                0, concern_text))
                     /\ last' = Req("concern", c, "storing", << >>, << >>)
    /\ UNCHANGED << pc, globals, boot, session, stores, accepted, call >>

\* lines 195-202: the entry is appended
submit_concern_append(w) ==
    /\ pc = "serving"
    /\ BagIn(w, threads)
    /\ w.state = "concern"
    /\ concerns' = Append(concerns, [ text |-> w.text, status |-> "Open" ])
    /\ threads' = Finished(w)
    /\ last' = Req("concern_append", "thread", "ok", << >>, << >>)
    /\ UNCHANGED << pc, globals, boot, session, chat_history, sentiment_data,
                    accepted, call >>

\* lines 204-213
dashboard(c) ==
    /\ pc = "serving"
    /\ last' = Req("dashboard", c,
                   IF ~session[c] THEN "redirect_login" ELSE "ok",
                   << >>, << >>)
    /\ UNCHANGED << pc, globals, boot, session, stores, threads, accepted, call >>

(***************************************************************************)
(* Inputs of the requests.                                                 *)
(***************************************************************************)
\* (username, password) pairs a login form is posted with
LoginForms ==
    { << AdminName, AdminPassword >>,
      << << VerticalTab >> \o AdminName \o << " " >>,
         << FileSeparator >> \o AdminPassword \o << "\n", UnitSeparator >> >>,
      << << "g", "u", "e", "s", "t" >>, AdminPassword >>,
      << AdminName, << >> >> }

QuestionForms == { << " ", "h", "i", GroupSeparator >>, << " ", VerticalTab >> }

FeedbackForms ==
    { << "g", "o", "o", "d" >>, << RecordSeparator, "B", "a", "d", " " >>,
      << "o", "k" >>, << >> }

ConcernForms ==
    { << "p", "o", "t", "h", "o", "l", "e", "\n" >>, << "\t", RecordSeparator >> }

\* what the model decodes to when a request reaches it
WebDecoded == { << "Q", ":" >> \o AnswerMarker \o << " ", "o", "k" >> }

WebFailures == {"none", "generate"}

\* every set of acquisition steps that can fail at start-up
AllFailSets == SUBSET Steps

\* the start-ups the served program is run from: no step fails, or all do
ServedFailSets == { {}, Steps }

(***************************************************************************)
(* The program: start-up, then requests served in threads.                 *)
(***************************************************************************)
Next ==
    \/ Main(ServedFailSets)
    \/ Imported
    \/ \E c \in Clients, f \in LoginForms : login(c, "POST", f[1], f[2])
    \/ \E c \in Clients : login(c, "GET", << >>, << >>)
    \/ \E c \in Clients : logout(c)
    \/ \E c \in Clients, f \in QuestionForms : ask_question(c, f)
    \/ \E w \in BagToSet(threads), x \in WebFailures, d \in WebDecoded :
          ask_question_return(w, x, d)
    \/ \E c \in Clients, f \in FeedbackForms : submit_feedback(c, f)
    \/ \E w \in BagToSet(threads) : submit_feedback_store(w)
    \/ \E c \in Clients, f \in ConcernForms : submit_concern(c, f)
    \/ \E w \in BagToSet(threads) : submit_concern_append(w)
    \/ \E c \in Clients : dashboard(c)

Spec == Init /\ [][Next]_vars

(***************************************************************************)
(* A direct call of generate_response after start-up, with every question, *)
(* failing step and decoded output of the bounded sets.  The function      *)
(* writes no global, so one call per run reaches every case.               *)
(***************************************************************************)
Questions == { << >>, << "h", "i", "?" >> }

DecodedFragments ==
    { AnswerMarker, << "A", "n", "s", "w", "e", "r" >>, << ":" >>, << " " >>,
      << " ", "y", "e", "s", "\n" >>, << "Q", ":" >> }

DecodedTexts == TextsUpTo(DecodedFragments, MaxFragments)

GenerateCall(question, failAt, decoded) ==
    /\ pc = "serving"
    /\ call = NoCall
    /\ LET r == generate_response(question, tokenizer, model, failAt, decoded)
       IN  call' = [ fn |-> "generate_response", question |-> question,
                     failAt |-> failAt, decoded |-> decoded,
                     ret |-> r.ret, raised |-> r.raised, invoked |-> r.invoked ]
    /\ UNCHANGED << pc, globals, boot, session, stores, threads, accepted, last >>

NextGenerate ==
    \/ Main(AllFailSets)
    \/ Imported
    \/ \E q \in Questions, d \in DecodedTexts : GenerateCall(q, "none", d)
    \/ \E q \in Questions, x \in FailPoints : GenerateCall(q, x, << >>)

SpecGenerate == Init /\ [][NextGenerate]_vars

(***************************************************************************)
(* Direct calls of analyze_sentiment on every text of the bounded set.     *)
(***************************************************************************)
SentimentFragments ==
    { << "g", "o", "o", "d" >>, << "G", "r", "e", "a", "t" >>,
      << "b", "a", "d" >>, << "P", "O", "O", "R" >>, << " " >>,
      << "i", "s" >>, << "s", "u", "e" >>, << "h", "a", "p", "p", "y" >> }

SentimentTexts == TextsUpTo(SentimentFragments, MaxFragments)

InitSentiment ==
    /\ pc = "boot"
    /\ device = "None"
    /\ tokenizer = "None"
    /\ model = "None"
    /\ boot = NoBoot
    /\ session = [c \in Clients |-> FALSE]
    /\ chat_history = << >>
    /\ sentiment_data = [k \in Categories |-> 0]
    /\ concerns = << >>
    /\ threads = EmptyBag
    /\ accepted = [k \in Categories |-> 0]
    /\ last = NoRequest
    /\ \E t \in SentimentTexts :
          call = [ fn |-> "analyze_sentiment", text |-> t, result |-> "pending" ]

Classify ==
    /\ call.fn = "analyze_sentiment"
    /\ call.result = "pending"
    /\ call' = [call EXCEPT !.result = analyze_sentiment(call.text)]
    /\ UNCHANGED << pc, globals, boot, session, stores, threads, accepted, last >>

NextSentiment == Classify

SpecSentiment == InitSentiment /\ [][NextSentiment]_vars

(***************************************************************************)
(* Properties.                                                             *)
(***************************************************************************)
\* generate_response will run generation: both globals are set
Loaded == tokenizer # "None" /\ model # "None"

Started == pc = "serving" /\ boot.how = "main"

Called == call.fn = "generate_response"

\* C1: whenever initialize_model() returns, it returns True if and only if a
\* model is loaded afterwards (tokenizer and model both set), and False if and
\* only if none is (generate_response answers with the 'not ready' text).
C1_ReturnIffLoaded ==
    (Started /\ boot.ret # "raised") =>
        /\ (boot.ret = "True") <=> Loaded
        /\ (boot.ret = "False") <=> ~Loaded

\* C2: after initialize_model() has finished, whenever both globals are set the
\* tokenizer and the model come from the same model identifier.
C2_NeverMixed ==
    (Started /\ Loaded) => tokenizer = model

\* C3: when a step of the preferred acquisition fails, the fallback acquisition
\* is attempted exactly once and initialize_model() does not raise; when the
\* fallback fails too, initialize_model() returns False, without raising.
C3_FallbackOnce ==
    (Started /\ boot.primary_error # "none") =>
        /\ boot.fallback_attempts = 1
        /\ boot.ret # "raised"
        /\ (boot.fallback_error # "none") => boot.ret = "False"
        /\ (boot.fallback_error = "none") => boot.ret = "True"

\* C3 witness: placing the preferred model failed, then loading the fallback
\* model failed, and the function returned False.
C3_Witness ==
    /\ Started
    /\ boot.primary_error = "pto"
    /\ boot.fallback_error = "fmodel"
    /\ boot.fallback_attempts = 1
    /\ boot.ret = "False"

\* C4: with the model or the tokenizer unset (also when initialize_model() was
\* never called), generate_response returns the fixed 'not ready' text for
\* every question, invokes neither tokenizer nor model, and does not raise.
C4_AbsentPlaceholder ==
    (Called /\ ~Loaded) =>
        /\ call.ret = NotReady
        /\ ~call.raised
        /\ ~call.invoked

\* C4 witness: a call with the empty question where only the tokenizer is set.
C4_Witness ==
    /\ Called
    /\ tokenizer = "fallback"
    /\ model = "None"
    /\ call.question = << >>
    /\ call.ret = NotReady

\* C5: with a model loaded, generate_response never raises and returns a text;
\* when an internal step fails, the text is the 'technical difficulties' one.
C5_NeverRaises ==
    (Called /\ Loaded) =>
        /\ ~call.raised
        /\ call.ret \in Seq(STRING)
        /\ (call.failAt \in FailPoints) => call.ret = TechnicalDifficulties

\* C5 witness: tokenizing failed with a model loaded.
C5_Witness ==
    /\ Called
    /\ Loaded
    /\ call.failAt = "tokenize"
    /\ call.ret = TechnicalDifficulties

\* C6: when the accelerated-compute query itself fails at start-up, the device
\* becomes the CPU, acquisition still proceeds and no error leaves
\* initialize_model().
C6_QueryFailureDegrades ==
    (Started /\ boot.query = "raise") =>
        /\ device = "cpu"
        /\ boot.primary_attempts = 1
        /\ boot.ret # "raised"

\* the positions at which word occurs in text
OccurrencesOf(word, text) ==
    Cardinality({ i \in 1..Len(text) : MatchAt(text, word, i) })

RECURSIVE SumOver(_, _)
SumOver(words, text) ==
    IF words = << >> THEN 0
    ELSE OccurrencesOf(Head(words), text) + SumOver(Tail(words), text)

\* the listed terms that occur in text at least once
TermsIn(words, text) ==
    { i \in DOMAIN words : \E k \in 1..Len(text) : MatchAt(text, words[i], k) }

Verdict(p, n) ==
    IF p > n THEN "Positive" ELSE IF n > p THEN "Negative" ELSE "Neutral"

Classified == call.fn = "analyze_sentiment" /\ call.result # "pending"

\* C7 as stated: analyze_sentiment compares the numbers of occurrences of the
\* positive and of the negative terms in the lower-cased text.
C7_OccurrenceCount ==
    Classified =>
        call.result = Verdict(SumOver(positive_words, lower(call.text)),
                              SumOver(negative_words, lower(call.text)))

\* C7 amended: analyze_sentiment compares the numbers of positive and of
\* negative terms that the lower-cased text contains at least once (a term
\* counts once however often it occurs): Positive exactly when more positive
\* terms, Negative exactly when more negative terms, Neutral when equal.
C7_TermCount ==
    Classified =>
        call.result =
            Verdict(Cardinality(TermsIn(positive_words, lower(call.text))),
                    Cardinality(TermsIn(negative_words, lower(call.text))))

\* C7 witness: an upper-case positive term twice and a negative term once is
\* Neutral: one term of each list.
C7_Witness ==
    /\ Classified
    /\ call.text = << "G", "r", "e", "a", "t", "G", "r", "e", "a", "t", "b", "a", "d" >>
    /\ call.result = "Neutral"

\* the text after the last occurrence of the marker
AfterLastMarker(text) ==
    LET at == { i \in 1..Len(text) : MatchAt(text, AnswerMarker, i) }
    IN  SubSeq(text, SetMax(at) + Len(AnswerMarker), Len(text))

RECURSIVE TrimLeft(_)
TrimLeft(text) ==
    IF text # << >> /\ Head(text) \in Whitespace THEN TrimLeft(Tail(text)) ELSE text

RECURSIVE TrimRight(_)
TrimRight(text) ==
    IF text # << >> /\ text[Len(text)] \in Whitespace
    THEN TrimRight(SubSeq(text, 1, Len(text) - 1))
    ELSE text

HasMarker(text) == \E i \in 1..Len(text) : MatchAt(text, AnswerMarker, i)

\* C8: when generation succeeds, generate_response returns the text after the
\* last "Answer:" of the decoded output, trimmed of surrounding whitespace, and
\* the decoded output unchanged when it holds no "Answer:".
C8_AfterLastMarker ==
    (Called /\ Loaded /\ call.failAt = "none") =>
        IF HasMarker(call.decoded)
        THEN call.ret = TrimRight(TrimLeft(AfterLastMarker(call.decoded)))
        ELSE call.ret = call.decoded

\* C8 witness: two markers, and whitespace around the text after the last one.
C8_Witness ==
    /\ Called
    /\ Loaded
    /\ call.failAt = "none"
    /\ call.decoded = AnswerMarker \o AnswerMarker \o << " ", "y", "e", "s", "\n" >>
    /\ call.ret = << "y", "e", "s" >>

Gated == {"ask", "feedback", "concern", "dashboard"}

Stores == {"ask_return", "feedback_store", "concern_append"}

\* C9: a request that finds its session not logged in is redirected: it starts
\* no work (generate_response and analyze_sentiment are called only by a
\* request past the gate) and changes none of chat_history, sentiment_data and
\* concerns, which only a request that came with a logged-in session changes;
\* a session becomes logged in only by a login POST with the accepted
\* credentials, and logout ends it.
C9_AuthGate ==
    [][ /\ (last'.handler \in Gated /\ ~session[last'.client]) =>
              /\ UNCHANGED << stores, threads, accepted >>
              /\ last'.status = "redirect_login"
        /\ (BagCardinality(threads') > BagCardinality(threads)) =>
              /\ last'.handler \in Gated
              /\ session[last'.client]
              /\ \E w \in BagToSet(threads') : w.logged_in /\ threads' = Admitted(w)
        /\ \A c \in Clients :
              (~session[c] /\ session'[c]) =>
                  /\ last'.handler = "login"
                  /\ last'.client = c
                  /\ strip(last'.username) = AdminName
                  /\ strip(last'.password) = AdminPassword
        /\ (last'.handler = "logout") => ~session'[last'.client]
        /\ (stores' # stores) =>
              /\ last'.handler \in Stores
              /\ \E w \in BagToSet(threads) : w.logged_in /\ threads' = Finished(w)
      ]_vars

\* C9 witness: after a chat entry was stored and everybody logged out, a
\* question is sent and refused.
C9_Witness ==
    /\ Len(chat_history) > 0
    /\ \A c \in Clients : ~session[c]
    /\ threads = EmptyBag
    /\ last.handler = "ask"
    /\ last.status = "redirect_login"

\* C10: once every concurrently handled /feedback request has completed, each
\* counter of sentiment_data equals the number of accepted submissions
\* classified into its category (and so their sum the number accepted).
C10_NoLostIncrement ==
    (InFlight({"feedback"}) = 0) =>
        \A k \in Categories : sentiment_data[k] = accepted[k]

====
